---- MODULE Spec2Model ----
(***************************************************************************)
(* Model of the Bitcoin anchoring service: the public anchoring            *)
(* configuration (blockchain/consensus_storage.rs), the anchoring test     *)
(* kit (test_data.rs) and the anchoring protocol they drive.               *)
(***************************************************************************)
EXTENDS Integers, Sequences, FiniteSets, TLC

VARIABLES
    cfg,        \* the AnchoringConfig value held by the caller of the configuration API
    ret,        \* the outcome of the last configuration API call
    status,     \* "running", or "panicked" once a call has aborted the thread
    height,     \* height of the last committed ledger block
    configs,    \* append-only log of the committed configuration epochs
    chain,      \* anchoring_transactions_chain of the ledger
    pool,       \* signature records submitted by validators, not yet committed
    signatures, \* committed signature records
    signed,     \* per validator node: the proposals it has signed
    rejected,   \* the signing requests refused with DuplicateProposalSignature
    proposals,  \* every proposal a scheduler evaluation has produced, with the height
    relayed,    \* the transactions broadcast to the Bitcoin network
    local_private_keys, \* the test kit node's shared map from address to private key
    node_configs,       \* per validator: the private_keys map of its LocalConfig
    renew,      \* the locals of renew_address and the position of the call
    observed,   \* the key map a signing attempt of the test kit node has read
    made,       \* the outcome of the last create_signature_tx_for_validators call
    change_proposal, \* the configuration change proposal the test kit has built last
    confirmations, \* Bitcoin confirmations of the chain's spendable output
    relay_failures \* the number of broadcasts the Bitcoin relay has failed

apiVars == <<cfg, ret, status>>
ledgerVars == <<height, configs, chain, pool, signatures, signed, rejected, proposals, relayed>>
kitVars == <<local_private_keys, node_configs, renew, observed, made, change_proposal,
            confirmations>>
vars == <<cfg, ret, status, height, configs, chain, pool, signatures, signed, rejected,
          proposals, relayed, local_private_keys, node_configs, renew, observed, made,
          change_proposal, confirmations, relay_failures>>

-----------------------------------------------------------------------------
(* Bounds of the model. *)

\* Longest validators vector handed to the constructors.
MaxValidators == 257
\* Longest validators vector in a persisted record handed to deserialize.
MaxStoredValidators == 2
\* Largest frequency in a persisted record (besides the default policy's).
MaxFrequency == 3
\* Ledger heights 0..MaxHeight are handed to latest_anchoring_height.
MaxHeight == 7
\* validators_num of new_with_testnet ranges over 1..MaxNodes.
MaxNodes == 4
\* anchoring_interval of new_with_testnet ranges over 1..MaxInterval.
MaxInterval == 2
\* Number of blocks committed in a run of the protocol.
MaxBlocks == 3
\* Number of configuration epochs in a run of the protocol.
MaxEpochs == 2
\* Number of proposals signed, over all validators, in a run of the protocol.
MaxSignings == 4
\* Number of validators whose submission a block may leave waiting.
MaxDelayed == 1
\* Number of different signature byte strings a validator produces for one input.
MaxSigVariants == 2
\* Bitcoin confirmations of the spendable output are counted up to MaxConfirmations.
MaxConfirmations == 5
\* Number of blocks the anchoring test kit creates.
MaxKitBlocks == 2
\* Number of broadcasts the Bitcoin relay fails in a run.
MaxRelayFailures == 2
\* Positions 1..MaxReplacedPosition (and the last one) of a validators vector
\* have their key replaced when two addresses are compared.
MaxReplacedPosition == 2

(* Program constants. *)

\* Default policy of AnchoringConfig.
DefaultFee == 1000
DefaultFrequency == 500
DefaultUtxoConfirmations == 5
\* validators.len() is narrowed by `as u8`.
U8Modulus == 256

-----------------------------------------------------------------------------
(* Option<T>: None is the empty sequence, Some(x) a one-element sequence. *)
None == <<>>
Some(x) == <<x>>
IsSome(o) == Len(o) = 1
Unwrap(o) == o[1]

\* btc::Network
Network == {"Bitcoin", "Testnet"}

\* The n public keys 1..n in order: a validators vector of length n.
KeySeq(n) == [i \in 1..n |-> i]

\* The funding transactions the API is exercised with.
FundingTxs == {"funding_tx_1", "funding_tx_2"}

-----------------------------------------------------------------------------
(* AnchoringConfig and its methods. *)

default ==
    [validators |-> <<>>,
     funding_tx |-> None,
     fee |-> DefaultFee,
     frequency |-> DefaultFrequency,
     utxo_confirmations |-> DefaultUtxoConfirmations,
     network |-> "Testnet"]

\* Mutant: the network argument is dropped and the default network kept.
new_default_network(network, public_key) ==
    [default EXCEPT !.validators = <<public_key>>]

new(network, public_key) ==
    [default EXCEPT !.validators = <<public_key>>, !.network = network]

new_with_funding_tx(network, validators, tx) ==
    [default EXCEPT !.validators = validators,
                    !.funding_tx = Some(tx),
                    !.network = network]

\* Crate-level majority_count(cnt: u8) -> u8.
crate_majority_count(cnt) == (cnt * 2) \div 3 + 1

\* Mutant: a simple majority of half the validators.
majority_count_half(c) == Len(c.validators) \div 2

majority_count(c) == crate_majority_count(Len(c.validators) % U8Modulus)

\* (btc::RedeemScript, btc::Address): the script lists the keys in order with
\* the quorum; the address commits to the script and the network.
\* Mutant: the script keeps the quorum and drops the keys.
redeem_script_no_keys(c) ==
    LET script == [public_keys |-> <<>>, quorum |-> majority_count(c)]
    IN  <<script, [script |-> script, network |-> c.network]>>

redeem_script(c) ==
    LET script == [public_keys |-> c.validators, quorum |-> majority_count(c)]
    IN  <<script, [script |-> script, network |-> c.network]>>

anchoring_address(c) == redeem_script(c)[2]

\* Mutant: the number of whole intervals instead of the remainder is subtracted.
latest_anchoring_height_div(c, h) == h - (h \div c.frequency)

\* Defined for c.frequency > 0; the remainder by zero aborts the thread.
latest_anchoring_height(c, h) == h - (h % c.frequency)

\* Whether Option::expect in funding_tx() aborts the thread.
funding_tx_panics(c) == ~IsSome(c.funding_tx)
funding_tx(c) == Unwrap(c.funding_tx)

ExpectMessage == "You need to specify suitable funding_tx"

btc_network_to_str(network) ==
    CASE network = "Bitcoin" -> "bitcoin"
      [] network = "Testnet" -> "testnet"

\* Result<btc::Network, D::Error>: Some(network), or None for Err("Wrong network").
btc_network_from_str(s) ==
    CASE s = "bitcoin" -> Some("Bitcoin")
      [] s = "testnet" -> Some("Testnet")
      [] OTHER -> None

\* The JSON document of a configuration, field by field.
serialize(c) ==
    [validators |-> c.validators,
     funding_tx |-> c.funding_tx,
     fee |-> c.fee,
     frequency |-> c.frequency,
     utxo_confirmations |-> c.utxo_confirmations,
     network |-> btc_network_to_str(c.network)]

\* serde_json::from_slice(..).unwrap() aborts the thread on Err.
deserialize_panics(v) == ~IsSome(btc_network_from_str(v.network))
deserialize(v) ==
    [validators |-> v.validators,
     funding_tx |-> v.funding_tx,
     fee |-> v.fee,
     frequency |-> v.frequency,
     utxo_confirmations |-> v.utxo_confirmations,
     network |-> Unwrap(btc_network_from_str(v.network))]

-----------------------------------------------------------------------------
(* Inputs of the configuration API. *)

ValidatorInputs == {KeySeq(n) : n \in 0..MaxValidators}

\* Heights handed to latest_anchoring_height: small ones and the ones around
\* the multiples of the default frequency.
HeightInputs == (0..MaxHeight) \cup {499, 500, 501, 999, 1000, 1200}

\* Persisted records as they can come out of the ledger.
StoredRecords ==
    [validators : {KeySeq(n) : n \in 0..MaxStoredValidators},
     funding_tx : {None} \cup {Some(t) : t \in FundingTxs},
     fee : {DefaultFee},
     frequency : (0..MaxFrequency) \cup {DefaultFrequency},
     utxo_confirmations : {DefaultUtxoConfirmations},
     network : {"bitcoin", "testnet", "regtest"}]

\* Configurations whose address is compared with that of c: the same keying
\* under another policy, one validator key replaced, or the other network.
PolicyVariants(c) ==
    {[c EXCEPT !.fee = fee, !.frequency = frequency,
               !.utxo_confirmations = utxo_confirmations, !.funding_tx = tx]
        : fee \in {c.fee, c.fee + 1},
          frequency \in {c.frequency, c.frequency + 1},
          utxo_confirmations \in {c.utxo_confirmations, c.utxo_confirmations + 1},
          tx \in {None, Some("funding_tx_1")}}

ReplacedPositions(c) ==
    {i \in DOMAIN c.validators : i <= MaxReplacedPosition \/ i = Len(c.validators)}

KeyVariants(c) ==
    {[c EXCEPT !.validators[i] = key]
        : i \in ReplacedPositions(c), key \in 0..2} \ {c}

NetworkVariants(c) == {[c EXCEPT !.network = network] : network \in Network} \ {c}

ComparedConfigs(c) == PolicyVariants(c) \cup KeyVariants(c) \cup NetworkVariants(c)

NoCall == [op |-> "none", arg |-> 0, val |-> 0]

-----------------------------------------------------------------------------
(* The configuration API as a state machine: one action per call. *)

\* The caller builds its configuration before it queries it.
Fresh == ret = NoCall

CallDefault ==
    /\ status = "running"
    /\ Fresh
    /\ cfg' = default
    /\ ret' = [op |-> "default", arg |-> 0, val |-> 0]
    /\ UNCHANGED status

CallNew ==
    /\ status = "running"
    /\ Fresh
    /\ \E network \in Network, pk \in 1..2 :
          /\ cfg' = new(network, pk)
          /\ ret' = [op |-> "new", arg |-> [network |-> network, public_key |-> pk],
                     val |-> 0]
    /\ UNCHANGED status

CallNewWithFundingTx ==
    /\ status = "running"
    /\ Fresh
    /\ \E network \in Network, validators \in ValidatorInputs, tx \in FundingTxs :
          /\ cfg' = new_with_funding_tx(network, validators, tx)
          /\ ret' = [op |-> "new_with_funding_tx",
                     arg |-> [network |-> network, validators |-> validators, tx |-> tx],
                     val |-> 0]
    /\ UNCHANGED status

CallDeserialize ==
    /\ status = "running"
    /\ Fresh
    /\ \E v \in StoredRecords :
          IF deserialize_panics(v)
          THEN /\ status' = "panicked"
               /\ ret' = [op |-> "deserialize", arg |-> v, val |-> "Wrong network"]
               /\ UNCHANGED cfg
          ELSE /\ cfg' = deserialize(v)
               /\ ret' = [op |-> "deserialize", arg |-> v, val |-> 0]
               /\ UNCHANGED status

CallSerialize ==
    /\ status = "running"
    /\ ret' = [op |-> "serialize", arg |-> 0, val |-> serialize(cfg)]
    /\ UNCHANGED <<cfg, status>>

\* redeem_script() of the held configuration and of a compared one.
CallRedeemScript ==
    /\ status = "running"
    /\ \E other \in ComparedConfigs(cfg) :
          ret' = [op |-> "redeem_script", arg |-> other,
                  val |-> <<redeem_script(cfg), redeem_script(other)>>]
    /\ UNCHANGED <<cfg, status>>

CallMajorityCount ==
    /\ status = "running"
    /\ ret' = [op |-> "majority_count", arg |-> 0, val |-> majority_count(cfg)]
    /\ UNCHANGED <<cfg, status>>

CallLatestAnchoringHeight ==
    /\ status = "running"
    /\ \E h \in HeightInputs :
          IF cfg.frequency = 0
          THEN /\ status' = "panicked"
               /\ ret' = [op |-> "latest_anchoring_height", arg |-> h,
                          val |-> "remainder with a divisor of zero"]
          ELSE /\ ret' = [op |-> "latest_anchoring_height", arg |-> h,
                          val |-> latest_anchoring_height(cfg, h)]
               /\ UNCHANGED status
    /\ UNCHANGED cfg

CallFundingTx ==
    /\ status = "running"
    /\ IF funding_tx_panics(cfg)
       THEN /\ status' = "panicked"
            /\ ret' = [op |-> "funding_tx", arg |-> 0, val |-> ExpectMessage]
       ELSE /\ ret' = [op |-> "funding_tx", arg |-> 0, val |-> funding_tx(cfg)]
            /\ UNCHANGED status
    /\ UNCHANGED cfg

ApiInit ==
    /\ cfg \in {new(network, 1) : network \in Network}
    /\ ret = NoCall
    /\ status = "running"

-----------------------------------------------------------------------------
(* Transactions and the anchoring chain. *)

\* A Bitcoin transaction: the outputs it spends (whole transactions, one
\* multisig output each), the address it pays and the ledger height it anchors.
\* The funding transaction spends nothing of the chain and anchors nothing.
FundingTx(address) == [inputs |-> <<>>, out |-> address, anchored |-> -1]

\* Mutant: the first transaction of the chain is taken for its tip.
last_anchoring_tx_first(ch) == IF ch = <<>> THEN None ELSE Some(ch[1])

\* schema.anchoring_transactions_chain().last()
last_anchoring_tx(ch) == IF ch = <<>> THEN None ELSE Some(ch[Len(ch)])

\* GlobalConfig of gen_anchoring_config: `count` fresh keys, the funding
\* transaction sent to the address of these keys, the given interval.
gen_anchoring_config(network, count, anchoring_interval) ==
    LET global == [default EXCEPT !.validators = KeySeq(count),
                                  !.network = network,
                                  !.frequency = anchoring_interval]
    IN  [global EXCEPT !.funding_tx = Some(FundingTx(anchoring_address(global)))]

\* Configuration change proposal of drop_validator_proposal: the last key is popped.
drop_validator_proposal(c) ==
    [c EXCEPT !.validators = SubSeq(c.validators, 1, Len(c.validators) - 1)]
-----------------------------------------------------------------------------
(* The ledger-resident anchoring state and the scheduler. *)

Range(f) == {f[i] : i \in DOMAIN f}

\* Validator nodes are named by their public keys; a validator that joins
\* later brings a key no configuration has held before.
Nodes == 1..(MaxNodes + MaxEpochs - 1)

\* Whether the chain's output has moved to the address.
ChainPays(ch, address) ==
    IsSome(last_anchoring_tx(ch)) /\ Unwrap(last_anchoring_tx(ch)).out = address

\* BtcAnchoringState: a projection of the configuration log and the chain.
\* A committed configuration with another address is the following one until
\* the chain's output has moved to its address.
actual_state(cs, ch) ==
    LET following == cs[Len(cs)]
    IN  IF /\ Len(cs) >= 2
           /\ anchoring_address(cs[Len(cs) - 1]) # anchoring_address(following)
           /\ ~ChainPays(ch, anchoring_address(following))
        THEN [kind |-> "Transition",
              actual_configuration |-> cs[Len(cs) - 1],
              following_configuration |-> following]
        ELSE [kind |-> "Actual",
              actual_configuration |-> following,
              following_configuration |-> following]

output_address(st) ==
    IF st.kind = "Transition"
    THEN anchoring_address(st.following_configuration)
    ELSE anchoring_address(st.actual_configuration)

\* Whether the target height still has to be anchored on top of the tip.
anchoring_due(tip, target) == ~IsSome(tip) \/ Unwrap(tip).anchored < target

\* The proposal every validator builds from the same ledger snapshot: it
\* spends the tip of the chain (the funding transaction while the chain is
\* empty), pays the output address and anchors the latest anchoring height.
actual_proposed_anchoring_transaction(h, cs, ch) ==
    LET st == actual_state(cs, ch)
        c == st.actual_configuration
        target == latest_anchoring_height(c, h)
        tip == last_anchoring_tx(ch)
        input == IF IsSome(tip) THEN Unwrap(tip) ELSE funding_tx(c)
    IN  IF anchoring_due(tip, target)
        THEN Some([inputs |-> <<input>>, out |-> output_address(st), anchored |-> target])
        ELSE None

\* Input indices of a proposal, as in proposal_inputs.iter().enumerate().
InputIndices(p) == 0..(Len(p.inputs) - 1)

\* The validators whose committed records sign input `index` of proposal p.
Signers(sigs, p, index) ==
    {r.validator : r \in {s \in sigs : s.proposal = p /\ s.input = index}}

signature_count(sigs, p, index) == Cardinality(Signers(sigs, p, index))

finalizable(sigs, p, c) ==
    \A index \in InputIndices(p) : signature_count(sigs, p, index) >= majority_count(c)

\* Mutant: a validator signs whatever is proposed.
already_signed_other_never(mine, p) == FALSE

\* Whether the validator has signed a different proposal for p's target height.
already_signed_other(mine, p) ==
    \E q \in mine : q.anchored = p.anchored /\ q # p

\* The number of times the validator's records for the proposal were committed;
\* a retry carries a new signature.
attempts(k, p) ==
    Cardinality({r.signature : r \in {s \in signatures : s.validator = k /\ s.proposal = p}})

\* The number of (validator, proposal) pairs signed so far.
signings == Cardinality(UNION {{<<k, p>> : p \in signed[k]} : k \in Nodes})

\* Whether the validator's submission for the proposal still waits for a block.
in_flight(k, p) == \E r \in pool : r.validator = k /\ r.proposal = p

-----------------------------------------------------------------------------
(* The protocol as a state machine. *)

\* A validator's step after a block commit: it evaluates the scheduler and
\* signs every input of the proposal, unless that would equivocate.
Sign(k) ==
    LET st == actual_state(configs, chain)
        p == actual_proposed_anchoring_transaction(height, configs, chain)
    IN  /\ k \in Range(st.actual_configuration.validators)
        /\ IsSome(p)
        /\ proposals' = proposals \cup {[at |-> height, tx |-> Unwrap(p)]}
        /\ ~in_flight(k, Unwrap(p))
        /\ (Unwrap(p) \in signed[k] \/ signings < MaxSignings)
        /\ IF already_signed_other(signed[k], Unwrap(p))
           THEN /\ rejected' = rejected \cup
                                   {[validator |-> k, proposal |-> Unwrap(p),
                                     error |-> "DuplicateProposalSignature"]}
                /\ UNCHANGED <<pool, signed>>
           ELSE /\ attempts(k, Unwrap(p)) < MaxSigVariants
                /\ pool' = pool \cup
                          {[validator |-> k, proposal |-> Unwrap(p), input |-> index,
                            signature |-> attempts(k, Unwrap(p)) + 1]
                             : index \in InputIndices(Unwrap(p))}
                /\ signed' = [signed EXCEPT ![k] = @ \cup {Unwrap(p)}]
                /\ UNCHANGED rejected
        /\ UNCHANGED <<height, configs, chain, signatures, relayed>>

\* A block with the submitted signature records, except those of the
\* validators whose submission arrives late: the records for the
\* current proposal from its signers are stored, the others are rejected, and
\* the proposal is appended to the chain once it is finalizable.
CommitBlockWithout(late) ==
    LET block == {r \in pool : r.validator \notin late}
        st == actual_state(configs, chain)
        c == st.actual_configuration
        p == actual_proposed_anchoring_transaction(height, configs, chain)
        accepted == IF IsSome(p)
                    THEN {r \in block : /\ r.proposal = Unwrap(p)
                                        /\ r.validator \in Range(c.validators)
                                        /\ r.input \in InputIndices(Unwrap(p))}
                    ELSE {}
        stored == signatures \cup accepted
    IN  /\ signatures' = stored
        /\ chain' = IF IsSome(p) /\ finalizable(stored, Unwrap(p), c)
                    THEN Append(chain, Unwrap(p))
                    ELSE chain
        /\ pool' = pool \ block
        /\ height' = height + 1
        /\ UNCHANGED <<configs, signed, rejected, proposals, relayed>>

CommitBlock ==
    /\ height < MaxBlocks
    /\ \E late \in {l \in SUBSET {r.validator : r \in pool} : Cardinality(l) <= MaxDelayed} :
          CommitBlockWithout(late)

\* The configuration a change proposal carries: the last validator dropped,
\* or a validator with a fresh key added.
FreshKey == 1 + Cardinality(UNION {Range(configs[i].validators) : i \in DOMAIN configs})

ConfigurationProposals ==
    LET c == configs[Len(configs)]
    IN  {drop_validator_proposal(c)}
        \cup {[c EXCEPT !.validators = Append(c.validators, FreshKey)]}

\* A block that commits a configuration change. A change is accepted only
\* while no transition is pending and only with a non-empty validators vector.
CommitConfiguration ==
    /\ height < MaxBlocks
    /\ Len(configs) < MaxEpochs
    /\ actual_state(configs, chain).kind = "Actual"
    /\ \E c \in ConfigurationProposals :
          /\ Len(c.validators) >= 1
          /\ configs' = Append(configs, c)
    /\ height' = height + 1
    /\ UNCHANGED <<chain, pool, signatures, signed, rejected, proposals, relayed>>

\* A validator broadcasts the oldest finalized transaction not yet relayed.
Relay ==
    /\ \E i \in DOMAIN chain :
          /\ chain[i] \notin relayed
          /\ \A j \in 1..(i - 1) : chain[j] \in relayed
          /\ relayed' = relayed \cup {chain[i]}
    /\ UNCHANGED <<height, configs, chain, pool, signatures, signed, rejected, proposals>>

\* Mutant: a failed broadcast takes the transaction off the chain.
RelayFailsForgets ==
    /\ relay_failures < MaxRelayFailures
    /\ chain # <<>>
    /\ chain[Len(chain)] \notin relayed
    /\ relay_failures' = relay_failures + 1
    /\ chain' = SubSeq(chain, 1, Len(chain) - 1)
    /\ UNCHANGED <<height, configs, pool, signatures, signed, rejected, proposals, relayed>>

\* The relay is unreachable or refuses the broadcast of a finalized
\* transaction: the ledger keeps what it has and the broadcast is retried.
RelayFails ==
    /\ relay_failures < MaxRelayFailures
    /\ \E i \in DOMAIN chain : chain[i] \notin relayed
    /\ relay_failures' = relay_failures + 1
    /\ UNCHANGED <<height, configs, chain, pool, signatures, signed, rejected, proposals,
                   relayed>>

\* The state new_with_testnet leaves behind.
LedgerInit ==
    /\ height = 0
    /\ \E count \in 1..MaxNodes, interval \in 1..MaxInterval :
          configs = <<gen_anchoring_config("Testnet", count, interval)>>
    /\ chain = <<>>
    /\ pool = {}
    /\ signatures = {}
    /\ signed = [k \in Nodes |-> {}]
    /\ rejected = {}
    /\ proposals = {}
    /\ relayed = {}

-----------------------------------------------------------------------------
(* The anchoring test kit: key maps, key rotation and signature batches. *)

\* The private key of the key pair with the given public key.
Privkey(public_key) == [secret |-> public_key]

\* Vec<LocalConfig> of gen_anchoring_config: every node holds its private key
\* under the address of the generated keys.
gen_local_configs(global) ==
    [i \in DOMAIN global.validators |->
        (anchoring_address(global) :> Privkey(global.validators[i]))]

\* The test kit's own node is validator 0; it holds the first generated key.
Us == 1

\* Mutant: the map is replaced by the new binding alone.
insert_alone(keys, address, key) == [a \in {address} |-> key]

\* HashMap::insert: binds the address, every other binding stays.
insert(keys, address, key) ==
    [a \in DOMAIN keys \cup {address} |-> IF a = address THEN key ELSE keys[a]]

NoRenew ==
    [pc |-> "idle", kind |-> "none", old_addr |-> None, new_addr |-> None,
     pk |-> None, before |-> None]

\* renew_address up to the release of the read lock: the state is evaluated
\* and, in a transition, the key of the old address is read.
RenewReadFrom(st) ==
    /\ status = "running"
    /\ renew.pc = "idle"
    /\ LET old_addr == anchoring_address(st.actual_configuration)
           new_addr == anchoring_address(st.following_configuration)
       IN  IF st.kind # "Transition"
           THEN /\ renew' = [NoRenew EXCEPT !.kind = "Actual"]
                /\ UNCHANGED <<status, observed>>
           ELSE IF old_addr \notin DOMAIN local_private_keys
           THEN /\ status' = "panicked"
                /\ UNCHANGED <<renew, observed>>
           ELSE /\ renew' = [pc |-> "read", kind |-> "Transition",
                             old_addr |-> Some(old_addr), new_addr |-> Some(new_addr),
                             pk |-> Some(local_private_keys[old_addr]),
                             before |-> Some(local_private_keys)]
                /\ observed' = None
                /\ UNCHANGED status
    /\ UNCHANGED <<local_private_keys, node_configs, made, confirmations>>
    /\ UNCHANGED <<cfg, ret, ledgerVars>>

\* renew_address on the state the schema derives from the ledger.
RenewRead == RenewReadFrom(actual_state(configs, chain))

\* Transition values whose two configurations have one address: the
\* following configuration repeats the actual one or differs from it in the
\* fee only.
EqualAddressTransitions ==
    LET c == actual_state(configs, chain).actual_configuration
    IN  {[kind |-> "Transition", actual_configuration |-> c, following_configuration |-> f]
            : f \in {c, [c EXCEPT !.fee = 2 * @]}}

\* renew_address when the schema reports a transition between two
\* configurations of one address.
RenewReadEqual == \E st \in EqualAddressTransitions : RenewReadFrom(st)

\* renew_address from the comparison of the addresses to the insertion under
\* the write lock, which stays held.
RenewInsert ==
    /\ status = "running"
    /\ renew.pc = "read"
    /\ IF renew.old_addr # renew.new_addr
       THEN /\ local_private_keys' =
                   insert(local_private_keys, Unwrap(renew.new_addr), Unwrap(renew.pk))
            /\ renew' = [renew EXCEPT !.pc = "write"]
       ELSE /\ renew' = [renew EXCEPT !.pc = "idle"]
            /\ UNCHANGED local_private_keys
    /\ UNCHANGED <<node_configs, observed, made, confirmations>>
    /\ UNCHANGED <<cfg, ret, status, ledgerVars>>

\* The first node configuration without a key for the address, if any:
\* indexing its map aborts the loop there.
first_missing(ncfgs, address) ==
    LET missing == {i \in DOMAIN ncfgs : address \notin DOMAIN ncfgs[i]}
    IN  IF missing = {} THEN Len(ncfgs) + 1
        ELSE CHOOSE i \in missing : \A j \in missing : i <= j

\* renew_address from the loop over the node configurations to the release
\* of the write lock.
RenewNodeConfigs ==
    /\ status = "running"
    /\ renew.pc = "write"
    /\ LET old_addr == Unwrap(renew.old_addr)
           new_addr == Unwrap(renew.new_addr)
           stop == first_missing(node_configs, old_addr)
       IN  /\ node_configs' =
                 [i \in DOMAIN node_configs |->
                     IF i < stop
                     THEN insert(node_configs[i], new_addr, node_configs[i][old_addr])
                     ELSE node_configs[i]]
           /\ status' = IF stop <= Len(node_configs) THEN "panicked" ELSE status
    /\ renew' = [renew EXCEPT !.pc = "idle"]
    /\ UNCHANGED <<local_private_keys, observed, made, confirmations>>
    /\ UNCHANGED <<cfg, ret, ledgerVars>>

\* A signing attempt of the test kit's node reads the shared key map under the
\* read lock, while a rotation is under way or after it.
ObserveKeys ==
    /\ status = "running"
    /\ renew.kind = "Transition"
    /\ renew.pc # "write"
    /\ observed' = Some(local_private_keys)
    /\ UNCHANGED <<local_private_keys, node_configs, renew, made, confirmations>>
    /\ UNCHANGED <<cfg, ret, status, ledgerVars>>

\* Result<T, BuilderError>
Ok(x) == [ok |-> TRUE, val |-> x]
Err(e) == [ok |-> FALSE, val |-> e]

\* The output the next anchoring transaction spends.
spendable(cs, ch) ==
    IF IsSome(last_anchoring_tx(ch)) THEN last_anchoring_tx(ch)
    ELSE actual_state(cs, ch).actual_configuration.funding_tx

\* Mutant: the builder takes an output with any number of confirmations.
enough_confirmations_any(c, confs) == TRUE

enough_confirmations(c, confs) == confs >= c.utxo_confirmations

\* Option<Result<proposal, BuilderError>>: the chain builder on a ledger
\* snapshot and the confirmations of the spendable output.
build_anchoring_transaction(h, cs, ch, confs) ==
    LET c == actual_state(cs, ch).actual_configuration
        tip == last_anchoring_tx(ch)
    IN  IF ~anchoring_due(tip, latest_anchoring_height(c, h))
        THEN None
        ELSE IF ~IsSome(spendable(cs, ch))
        THEN Some(Err("NoFundingTransaction"))
        ELSE IF ~enough_confirmations(c, confs)
        THEN Some(Err("InsufficientConfirmations"))
        ELSE Some(Ok(Unwrap(actual_proposed_anchoring_transaction(h, cs, ch))))

builder_fails(h, cs, ch, confs) ==
    /\ IsSome(build_anchoring_transaction(h, cs, ch, confs))
    /\ ~Unwrap(build_anchoring_transaction(h, cs, ch, confs)).ok

\* self.network().validators(): the validators of the last committed configuration.
network_validators == configs[Len(configs)].validators

\* validator_id + 1 of a validator of the network.
position(validator) ==
    CHOOSE i \in DOMAIN network_validators : network_validators[i] = validator

\* Mutant: the test kit's own node is not filtered out.
other_validators_all(validators_num) ==
    SubSeq(network_validators, 1,
           IF validators_num < Len(network_validators)
           THEN validators_num ELSE Len(network_validators))

\* .filter(|v| v != &self.us()).take(validators_num)
other_validators(validators_num) ==
    LET NotUs(v) == v # Us
        others == SelectSeq(network_validators, NotUs)
    IN  SubSeq(others, 1, IF validators_num < Len(others) THEN validators_num ELSE Len(others))

NoSignatures ==
    [op |-> "none", validators_num |-> 0, proposal |-> None, result |-> "none",
     records |-> <<>>]

\* The outcome of create_signature_tx_for_validators(validators_num): Ok with
\* the signature records in the order they are pushed, the builder's error,
\* or a panic on a missing key.
create_signature_tx_for_validators(validators_num) ==
    LET validators == other_validators(validators_num)
        st == actual_state(configs, chain)
        public_keys == redeem_script(st.actual_configuration)[1].public_keys
        p == build_anchoring_transaction(height, configs, chain, confirmations)
        address == output_address(st)
        proposal == Unwrap(p).val
        inputs == Len(proposal.inputs)
        keyless == {i \in DOMAIN validators :
                       \/ position(validators[i]) \notin DOMAIN node_configs
                       \/ address \notin DOMAIN node_configs[position(validators[i])]
                       \/ position(validators[i]) \notin DOMAIN public_keys}
        base == [op |-> "create_signature_tx_for_validators",
                 validators_num |-> validators_num, proposal |-> None,
                 result |-> "Ok", records |-> <<>>]
    IN  IF validators = <<>> \/ ~IsSome(p)
        THEN base
        ELSE IF ~Unwrap(p).ok
        THEN [base EXCEPT !.result = Unwrap(p).val]
        ELSE IF keyless # {}
        THEN [base EXCEPT !.result = "panicked", !.proposal = Some(proposal)]
        ELSE [base EXCEPT
                !.proposal = Some(proposal),
                !.records =
                    [j \in 1..(Len(validators) * inputs) |->
                        LET validator == validators[((j - 1) \div inputs) + 1]
                        IN  [validator |-> validator,
                             proposal |-> proposal,
                             input |-> (j - 1) % inputs,
                             signature |->
                                 node_configs[position(validator)][address].secret]]]

CreateSignatureTx ==
    /\ status = "running"
    /\ renew.pc = "idle"
    /\ \E validators_num \in 0..MaxNodes :
          /\ made' = create_signature_tx_for_validators(validators_num)
          /\ status' = IF made'.result = "panicked" THEN "panicked" ELSE status
    /\ UNCHANGED <<local_private_keys, node_configs, renew, observed, confirmations>>
    /\ UNCHANGED <<cfg, ret, ledgerVars>>

\* The test hands the records of the batch over to the ledger's pool.
SubmitSignatures ==
    /\ status = "running"
    /\ renew.pc = "idle"
    /\ made.records # <<>>
    /\ pool' = pool \cup Range(made.records)
    /\ made' = NoSignatures
    /\ UNCHANGED <<height, configs, chain, signatures, signed, rejected, proposals, relayed>>
    /\ UNCHANGED <<local_private_keys, node_configs, renew, observed, confirmations>>
    /\ UNCHANGED <<cfg, ret, status>>

\* The signing step of the test kit's own node: it needs a proposal from the
\* builder and its private key bound to the output address.
KitSign ==
    /\ status = "running"
    /\ renew.pc = "idle"
    /\ IsSome(build_anchoring_transaction(height, configs, chain, confirmations))
    /\ ~builder_fails(height, configs, chain, confirmations)
    /\ output_address(actual_state(configs, chain)) \in DOMAIN local_private_keys
    /\ Sign(Us)
    /\ UNCHANGED <<cfg, ret, status, kitVars>>

\* A block of the test kit with every record of the pool; a batch not handed
\* over is dropped with the test's step. While the builder fails there is no
\* proposal any record could be stored for.
KitCommitBlock ==
    /\ status = "running"
    /\ renew.pc = "idle"
    /\ height < MaxKitBlocks
    /\ IF builder_fails(height, configs, chain, confirmations)
       THEN /\ pool' = {}
            /\ height' = height + 1
            /\ UNCHANGED <<configs, chain, signatures, signed, rejected, proposals, relayed>>
       ELSE CommitBlockWithout({})
    /\ confirmations' = IF chain' # chain THEN 0 ELSE confirmations
    /\ made' = NoSignatures
    /\ UNCHANGED <<local_private_keys, node_configs, renew, observed>>
    /\ UNCHANGED <<cfg, ret, status>>

\* drop_validator_proposal(): the proposal is built from the configuration
\* in force and returned; nothing is committed.
DropValidatorProposal ==
    /\ status = "running"
    /\ renew.pc = "idle"
    /\ change_proposal' = Some(drop_validator_proposal(configs[Len(configs)]))
    /\ UNCHANGED <<local_private_keys, node_configs, renew, observed, made, confirmations>>
    /\ UNCHANGED <<cfg, ret, status, ledgerVars>>

\* Whether the ledger accepts the configuration change: not while a
\* transition is pending and not with an empty validators vector.
acceptable(c) ==
    /\ actual_state(configs, chain).kind = "Actual"
    /\ Len(c.validators) >= 1

\* The test hands the proposal to the ledger: a block commits it if it is
\* acceptable, otherwise it is refused and the ledger stays as it is.
CommitProposal ==
    /\ status = "running"
    /\ renew.pc = "idle"
    /\ IsSome(change_proposal)
    /\ IF acceptable(Unwrap(change_proposal))
       THEN /\ height < MaxKitBlocks
            /\ Len(configs) < MaxEpochs
            /\ configs' = Append(configs, Unwrap(change_proposal))
            /\ height' = height + 1
            /\ made' = NoSignatures
       ELSE UNCHANGED <<configs, height, made>>
    /\ change_proposal' = None
    /\ UNCHANGED <<chain, pool, signatures, signed, rejected, proposals, relayed>>
    /\ UNCHANGED <<local_private_keys, node_configs, renew, observed, confirmations>>
    /\ UNCHANGED <<cfg, ret, status>>

\* The Bitcoin network mines a block on top of the spendable output.
Confirm ==
    /\ status = "running"
    /\ renew.pc = "idle"
    /\ IsSome(spendable(configs, chain))
    /\ confirmations < MaxConfirmations
    /\ confirmations' = confirmations + 1
    /\ UNCHANGED <<local_private_keys, node_configs, renew, observed, made>>
    /\ UNCHANGED <<cfg, ret, status, ledgerVars>>

\* The key maps new_with_testnet leaves behind.
\* The chain builder evaluated at an anchoring point: the outcome is
\* returned to the caller, and a built transaction becomes the proposal of
\* this height; a failure leaves the ledger as it is.
Propose ==
    /\ status = "running"
    /\ IsSome(build_anchoring_transaction(height, configs, chain, confirmations))
    /\ ret' = [op |-> "actual_proposed_anchoring_transaction",
               arg |-> height,
               val |-> build_anchoring_transaction(height, configs, chain, confirmations)]
    /\ proposals' =
          IF builder_fails(height, configs, chain, confirmations)
          THEN proposals
          ELSE proposals \cup
                 {[at |-> height,
                   tx |-> Unwrap(build_anchoring_transaction(height, configs, chain,
                                                             confirmations)).val]}
    /\ UNCHANGED <<height, configs, chain, pool, signatures, signed, rejected, relayed>>
    /\ UNCHANGED <<cfg, status, kitVars>>

\* A validator signs the proposal the chain builder has produced.
ServiceSign(k) ==
    /\ status = "running"
    /\ IsSome(build_anchoring_transaction(height, configs, chain, confirmations))
    /\ ~builder_fails(height, configs, chain, confirmations)
    /\ Sign(k)
    /\ UNCHANGED <<cfg, ret, status, kitVars>>

KitInit ==
    /\ node_configs = gen_local_configs(configs[1])
    /\ local_private_keys = node_configs[1]
    /\ renew = NoRenew
    /\ observed = None
    /\ made = NoSignatures
    /\ change_proposal = None
    /\ confirmations = 0
    /\ relay_failures = 0

-----------------------------------------------------------------------------
(* Specifications. *)

\* The anchoring protocol; the configuration API is not called.
Init == ApiInit /\ cfg.network = "Testnet" /\ LedgerInit /\ KitInit

Next ==
    \/ (\E k \in Nodes : Sign(k)) /\ UNCHANGED <<apiVars, kitVars, relay_failures>>
    \/ CommitBlock /\ UNCHANGED <<apiVars, kitVars, relay_failures>>
    \/ CommitConfiguration /\ UNCHANGED <<apiVars, kitVars, relay_failures>>
    \/ Relay /\ UNCHANGED <<apiVars, kitVars, relay_failures>>

Spec == Init /\ [][Next]_vars

\* The configuration API, called in any order on a ledger left untouched.
InitApi ==
    /\ ApiInit
    /\ LedgerInit
    /\ Len(configs[1].validators) = 1
    /\ configs[1].frequency = 1
    /\ KitInit

NextApi ==
    \/ CallDefault /\ UNCHANGED <<ledgerVars, kitVars, relay_failures>>
    \/ CallNew /\ UNCHANGED <<ledgerVars, kitVars, relay_failures>>
    \/ CallNewWithFundingTx /\ UNCHANGED <<ledgerVars, kitVars, relay_failures>>
    \/ CallDeserialize /\ UNCHANGED <<ledgerVars, kitVars, relay_failures>>
    \/ CallSerialize /\ UNCHANGED <<ledgerVars, kitVars, relay_failures>>
    \/ CallRedeemScript /\ UNCHANGED <<ledgerVars, kitVars, relay_failures>>
    \/ CallMajorityCount /\ UNCHANGED <<ledgerVars, kitVars, relay_failures>>
    \/ CallLatestAnchoringHeight /\ UNCHANGED <<ledgerVars, kitVars, relay_failures>>
    \/ CallFundingTx /\ UNCHANGED <<ledgerVars, kitVars, relay_failures>>

SpecApi == InitApi /\ [][NextApi]_vars

\* The anchoring protocol with a relay that may fail. A validator retries the
\* broadcast on every later block cycle and the relay accepts one in the end:
\* the broadcast that succeeds is weakly fair.
RelayStep == Relay /\ UNCHANGED <<apiVars, kitVars, relay_failures>>

NextRelay ==
    \/ (\E k \in Nodes : Sign(k)) /\ UNCHANGED <<apiVars, kitVars, relay_failures>>
    \/ CommitBlock /\ UNCHANGED <<apiVars, kitVars, relay_failures>>
    \/ CommitConfiguration /\ UNCHANGED <<apiVars, kitVars, relay_failures>>
    \/ RelayStep
    \/ RelayFails /\ UNCHANGED <<apiVars, kitVars>>

SpecRelay == Init /\ [][NextRelay]_vars /\ WF_vars(RelayStep)

\* The test kit: a ledger seeded with the generated configuration.
InitKit ==
    /\ ApiInit
    /\ cfg.network = "Testnet"
    /\ height = 0
    /\ \E count \in 1..MaxNodes, interval \in 1..MaxInterval :
          configs = <<gen_anchoring_config("Testnet", count, interval)>>
    /\ chain = <<>>
    /\ pool = {}
    /\ signatures = {}
    /\ signed = [k \in Nodes |-> {}]
    /\ rejected = {}
    /\ proposals = {}
    /\ relayed = {}
    /\ KitInit

NextKit ==
    \/ RenewRead /\ UNCHANGED <<change_proposal, relay_failures>>
    \/ RenewInsert /\ UNCHANGED <<change_proposal, relay_failures>>
    \/ RenewNodeConfigs /\ UNCHANGED <<change_proposal, relay_failures>>
    \/ ObserveKeys /\ UNCHANGED <<change_proposal, relay_failures>>
    \/ CreateSignatureTx /\ UNCHANGED <<change_proposal, relay_failures>>
    \/ SubmitSignatures /\ UNCHANGED <<change_proposal, relay_failures>>
    \/ KitSign /\ UNCHANGED relay_failures
    \/ KitCommitBlock /\ UNCHANGED <<change_proposal, relay_failures>>
    \/ DropValidatorProposal /\ UNCHANGED relay_failures
    \/ CommitProposal /\ UNCHANGED relay_failures
    \/ Confirm /\ UNCHANGED <<change_proposal, relay_failures>>

SpecKit == InitKit /\ [][NextKit]_vars

\* The test kit with renew_address run on every state the schema may
\* report, a transition between configurations of one address included.
NextRenew ==
    \/ NextKit
    \/ RenewReadEqual /\ UNCHANGED <<change_proposal, relay_failures>>

SpecRenew == InitKit /\ [][NextRenew]_vars

\* The configurations a service can be started with: the ones the
\* constructors of AnchoringConfig give, with and without a funding
\* transaction.
ServiceConfigs ==
    {new_with_funding_tx("Testnet", KeySeq(count),
                         FundingTx(anchoring_address(new_with_funding_tx("Testnet",
                                                                         KeySeq(count),
                                                                         "none"))))
        : count \in 1..MaxNodes}
    \cup {new("Testnet", public_key) : public_key \in 1..MaxNodes}

\* The service: initialize() hands its configuration to the ledger as the
\* first configuration, whatever it holds.
InitService ==
    /\ ApiInit
    /\ cfg.network = "Testnet"
    /\ height = 0
    /\ configs \in {<<global_config>> : global_config \in ServiceConfigs}
    /\ chain = <<>>
    /\ pool = {}
    /\ signatures = {}
    /\ signed = [k \in Nodes |-> {}]
    /\ rejected = {}
    /\ proposals = {}
    /\ relayed = {}
    /\ KitInit

NextService ==
    \/ Propose /\ UNCHANGED relay_failures
    \/ (\E k \in Nodes : ServiceSign(k)) /\ UNCHANGED relay_failures
    \/ KitCommitBlock /\ UNCHANGED <<change_proposal, relay_failures>>
    \/ Confirm /\ UNCHANGED <<change_proposal, relay_failures>>

SpecService == InitService /\ [][NextService]_vars
-----------------------------------------------------------------------------
(* Properties of the configuration API, checked under SpecApi. *)

\* C4: for every validators vector of length n >= 1, majority_count() is
\* floor(2n/3)+1 and lies in [1, n].
C4_MajorityCountFormula ==
    (ret.op = "majority_count" /\ Len(cfg.validators) >= 1) =>
        LET n == Len(cfg.validators)
        IN  /\ ret.val = (2 * n) \div 3 + 1
            /\ 1 <= ret.val
            /\ ret.val <= n

\* C5: for every height and every frequency > 0, latest_anchoring_height is
\* height - (height mod frequency): a multiple of the frequency, not above the
\* height, the largest such multiple, and never below zero; with frequency 500
\* the height 1200 gives 1000.
C5_LatestAnchoringHeight ==
    (ret.op = "latest_anchoring_height" /\ cfg.frequency > 0) =>
        /\ status = "running"
        /\ ret.val = ret.arg - (ret.arg % cfg.frequency)
        /\ ret.val % cfg.frequency = 0
        /\ ret.val <= ret.arg
        /\ ret.arg - ret.val < cfg.frequency
        /\ ret.val >= 0
        /\ (cfg.frequency = 500 /\ ret.arg = 1200) => ret.val = 1000

C5_Witness ==
    /\ ret.op = "latest_anchoring_height"
    /\ status = "running"
    /\ cfg.frequency = 500
    /\ ret.arg = 1200
    /\ ret.val = 1000

\* C6: funding_tx() on a configuration without a funding transaction returns
\* the error MissingFundingTransaction as a value and the caller keeps
\* running; with a funding transaction it returns exactly that transaction.
C6_FundingTxError ==
    ret.op = "funding_tx" =>
        /\ status = "running"
        /\ IF IsSome(cfg.funding_tx)
           THEN ret.val = Unwrap(cfg.funding_tx)
           ELSE ret.val = "MissingFundingTransaction"

\* C7: a configuration with frequency 0 is rejected when it is accepted, so
\* every configuration held has frequency > 0 and latest_anchoring_height
\* never divides by zero.
C7_FrequencyPositive ==
    /\ cfg.frequency > 0
    /\ ~(ret.op = "latest_anchoring_height" /\ status = "panicked")

\* C8: every configuration that exists has a non-empty validators vector.
C8_ValidatorsNonEmpty == Len(cfg.validators) >= 1

\* Whether exactly one validator key of configuration a is replaced in b.
OneKeyReplaced(a, b) ==
    /\ Len(a.validators) = Len(b.validators)
    /\ Cardinality({i \in DOMAIN a.validators : a.validators[i] # b.validators[i]}) = 1

\* C11: two configurations with the same ordered validators, majority
\* threshold and network have the same (redeem script, address) pair whatever
\* their fee, frequency, utxo_confirmations and funding_tx are, and a
\* configuration with one validator key replaced has another address.
C11_AddressDeterministic ==
    ret.op = "redeem_script" =>
        /\ (/\ cfg.validators = ret.arg.validators
            /\ majority_count(cfg) = majority_count(ret.arg)
            /\ cfg.network = ret.arg.network) => ret.val[1] = ret.val[2]
        /\ (OneKeyReplaced(cfg, ret.arg) /\ cfg.network = ret.arg.network)
              => ret.val[1][2] # ret.val[2][2]

C11_Witness ==
    /\ ret.op = "redeem_script"
    /\ Len(cfg.validators) = 4
    /\ OneKeyReplaced(cfg, ret.arg)
    /\ cfg.fee = ret.arg.fee
    /\ ret.val[1][2] # ret.val[2][2]

\* C12: new(network, pk) gives validators [pk], no funding transaction,
\* majority_count() 1, the given network and the default policy (fee 1000,
\* frequency 500, utxo_confirmations 5); new_with_funding_tx(network,
\* validators, tx) gives the validators in the given order, the funding
\* transaction tx, the given network and the same defaults.
C12_BootstrapConstruction ==
    /\ ret.op = "new" =>
          /\ cfg.validators = <<ret.arg.public_key>>
          /\ cfg.funding_tx = None
          /\ majority_count(cfg) = 1
          /\ cfg.network = ret.arg.network
          /\ cfg.fee = 1000 /\ cfg.frequency = 500 /\ cfg.utxo_confirmations = 5
    /\ ret.op = "new_with_funding_tx" =>
          /\ cfg.validators = ret.arg.validators
          /\ cfg.funding_tx = Some(ret.arg.tx)
          /\ cfg.network = ret.arg.network
          /\ cfg.fee = 1000 /\ cfg.frequency = 500 /\ cfg.utxo_confirmations = 5

C12_Witness ==
    /\ ret.op = "new"
    /\ ret.arg = [network |-> "Bitcoin", public_key |-> 2]
    /\ cfg.validators = <<2>>
    /\ cfg.network = "Bitcoin"

\* C13: a serialized configuration carries the network as "bitcoin" or
\* "testnet" and deserializes to the configuration it was made from; a record
\* with any other network string is refused with the error InvalidNetworkLiteral
\* while the process keeps running and the held configuration stays.
C13_NetworkEncoding ==
    /\ ret.op = "serialize" =>
          /\ ret.val.network \in {"bitcoin", "testnet"}
          /\ ~deserialize_panics(ret.val)
          /\ deserialize(ret.val) = cfg
    /\ ret.op = "deserialize" =>
          /\ status = "running"
          /\ IF ret.arg.network \in {"bitcoin", "testnet"}
             THEN serialize(cfg) = ret.arg
             ELSE ret.val = "InvalidNetworkLiteral"

\* C19: with n >= 1 validators and m = majority_count(), two sets of m
\* validators share more than floor(n/3) of them: 2m - n > floor(n/3).
C19_QuorumIntersection ==
    (ret.op = "majority_count" /\ Len(cfg.validators) >= 1) =>
        LET n == Len(cfg.validators)
            m == ret.val
            quorums == {q \in SUBSET Range(cfg.validators) : Cardinality(q) = m}
        IN  /\ 2 * m - n > n \div 3
            /\ n <= MaxNodes =>
                  \A a, b \in quorums : Cardinality(a \cap b) > n \div 3
-----------------------------------------------------------------------------
(* Properties of the anchoring protocol, checked under Spec. *)

\* The configuration whose validators sign the inputs of proposal p: the one
\* whose address the spent output pays.
SignerKeys(p) == p.inputs[1].out.script.public_keys

\* The finalized transactions: those of the chain and those relayed.
FullySigned == Range(chain) \cup relayed

\* C1: no validator signs two different proposals for one target height; a
\* request to sign a second one is rejected with DuplicateProposalSignature
\* and adds no signature record.
C1_NoEquivocation ==
    /\ \A k \in Nodes : \A a, b \in signed[k] : a.anchored = b.anchored => a = b
    /\ \A r, s \in pool \cup signatures :
          (r.validator = s.validator /\ r.proposal.anchored = s.proposal.anchored)
              => r.proposal = s.proposal
    /\ \A x \in rejected :
          /\ x.error = "DuplicateProposalSignature"
          /\ \E a \in signed[x.validator] :
                a.anchored = x.proposal.anchored /\ a # x.proposal
          /\ x.proposal \notin signed[x.validator]
          /\ \A r \in pool \cup signatures :
                ~(r.validator = x.validator /\ r.proposal = x.proposal)

C1_Witness ==
    \E x \in rejected : \E r \in pool \cup signatures :
        /\ r.validator = x.validator
        /\ r.proposal.anchored = x.proposal.anchored

\* C2: every output is spent by at most one fully signed transaction, and the
\* only unspent output of the chain is that of its last transaction (of the
\* funding transaction while the chain is empty).
C2_ChainNeverForks ==
    LET funding == funding_tx(configs[1])
        outputs == {funding} \cup Range(chain)
        spent == UNION {Range(t.inputs) : t \in Range(chain)}
        tip == IF chain = <<>> THEN funding ELSE chain[Len(chain)]
    IN  /\ \A a, b \in FullySigned :
              (Range(a.inputs) \cap Range(b.inputs) # {}) => a = b
        /\ relayed \subseteq Range(chain)
        /\ outputs \ spent = {tip}

C2_Witness ==
    /\ Len(chain) >= 2
    /\ relayed = Range(chain)

\* C3: a proposal is finalized exactly when every one of its inputs carries
\* records of at least majority_count() distinct validators, a validator's
\* repeated records counting once; with 4 validators 3 signers finalize and 2
\* do not.
C3_ThresholdFinalization ==
    \A x \in proposals :
        LET p == x.tx
            signers == {c \in Range(configs) : c.validators = SignerKeys(p)}
        IN  /\ \A c \in signers :
                  (p \in Range(chain)) <=> finalizable(signatures, p, c)
            /\ Len(SignerKeys(p)) = 4 =>
                  ((p \in Range(chain)) <=>
                      \A index \in InputIndices(p) :
                          Cardinality(Signers(signatures, p, index)) >= 3)

C3_Witness ==
    \E p \in Range(chain) :
        /\ Len(SignerKeys(p)) = 4
        /\ Cardinality(Signers(signatures, p, 0)) = 3
        /\ Cardinality({s \in signatures : s.proposal = p /\ s.input = 0}) > 3

\* C9: the commit of a configuration with other validators makes the state
\* Transition{actual, following}; the state stays so until the chain holds a
\* transaction that pays the following configuration's address, and only then
\* is it Actual with the following configuration.
C9_TransitionUntilPaid ==
    /\ []((actual_state(configs, chain).kind = "Actual" /\ Len(configs) >= 2) =>
             /\ actual_state(configs, chain).actual_configuration = configs[Len(configs)]
             /\ \E i \in DOMAIN chain :
                   chain[i].out = anchoring_address(configs[Len(configs)]))
    /\ [][configs' # configs =>
             /\ actual_state(configs', chain').kind = "Transition"
             /\ actual_state(configs', chain').actual_configuration
                    = configs[Len(configs)]
             /\ actual_state(configs', chain').following_configuration
                    = configs'[Len(configs')]]_vars
    /\ [][actual_state(configs, chain).kind = "Transition" =>
             \/ actual_state(configs', chain') = actual_state(configs, chain)
             \/ /\ \E i \in DOMAIN chain' :
                      chain'[i].out = anchoring_address(
                          actual_state(configs, chain).following_configuration)
                /\ actual_state(configs', chain').kind = "Actual"
                /\ actual_state(configs', chain').actual_configuration
                       = actual_state(configs, chain).following_configuration]_vars

C9_Witness ==
    /\ Len(configs) = 2
    /\ configs[1].validators = <<1, 2, 3>>
    /\ configs[2].validators = <<1, 2, 3, 4>>
    /\ actual_state(configs, chain).kind = "Actual"
    /\ chain # <<>>
    /\ chain[Len(chain)].out = anchoring_address(configs[2])

\* C10: two evaluations of the scheduler at one ledger height give the same
\* proposal, no proposal anchors a height at or below the last anchored one,
\* and the anchored heights grow strictly along the chain.
C10_SchedulerIdempotent ==
    LET p == actual_proposed_anchoring_transaction(height, configs, chain)
    IN  /\ \A a, b \in proposals : a.at = b.at => a.tx = b.tx
        /\ (IsSome(p) /\ chain # <<>>) =>
              Unwrap(p).anchored > chain[Len(chain)].anchored
        /\ \A a \in proposals :
              \A i \in DOMAIN chain :
                 (chain[i].anchored >= a.tx.anchored /\ chain[i] # a.tx) =>
                     \E j \in 1..i : chain[j].inputs = a.tx.inputs
        /\ \A i, j \in DOMAIN chain : i < j => chain[i].anchored < chain[j].anchored

C10_Witness ==
    /\ Len(chain) >= 2
    /\ configs[1].frequency = 1
    /\ \E k1, k2 \in Nodes :
          /\ k1 # k2
          /\ chain[2] \in signed[k1] \cap signed[k2]
-----------------------------------------------------------------------------
(* Properties of the anchoring test kit, checked under SpecKit. *)

\* Whether the map binds the new address to the key the old address has.
Rotated(keys, old_addr, new_addr) ==
    /\ old_addr \in DOMAIN keys
    /\ new_addr \in DOMAIN keys
    /\ keys[new_addr] = keys[old_addr]

\* C14: once renew_address has run in a transition between two different
\* addresses, the node's private-key map and every node's local configuration
\* bind the following configuration's address to the key the actual
\* configuration's address has, and the signature batch for that address is
\* made without a missing key.
C14_KeyRotation ==
    (renew.kind = "Transition" /\ renew.pc = "idle" /\ renew.old_addr # renew.new_addr) =>
        /\ Rotated(local_private_keys, Unwrap(renew.old_addr), Unwrap(renew.new_addr))
        /\ \A i \in DOMAIN node_configs :
              /\ Rotated(node_configs[i], Unwrap(renew.old_addr), Unwrap(renew.new_addr))
              /\ node_configs[i][Unwrap(renew.new_addr)] = Privkey(i)
        /\ renew.new_addr = Some(output_address(actual_state(configs, chain)))
              => made.result # "panicked"

C14_Witness ==
    /\ renew.kind = "Transition"
    /\ renew.pc = "idle"
    /\ actual_state(configs, chain).kind = "Transition"
    /\ Len(node_configs) = 3
    /\ made.result = "Ok"
    /\ Len(made.records) = 1
    /\ made.records[1].proposal.out = Unwrap(renew.new_addr)

\* C15: a signing attempt of the node that runs between the steps of a
\* rotation, or after them, reads either the key map the rotation started
\* from or that map with the new address bound to the old address's key.
C15_RotationAtomic ==
    (IsSome(observed) /\ renew.kind = "Transition") =>
        LET seen == Unwrap(observed)
            before == Unwrap(renew.before)
            old_addr == Unwrap(renew.old_addr)
            new_addr == Unwrap(renew.new_addr)
        IN  \/ seen = before
            \/ /\ DOMAIN seen = DOMAIN before \cup {new_addr}
               /\ seen[new_addr] = before[old_addr]
               /\ \A a \in DOMAIN before \ {new_addr} : seen[a] = before[a]

C15_Witness ==
    /\ IsSome(observed)
    /\ renew.pc = "read"
    /\ Unwrap(observed) = Unwrap(renew.before)
    /\ Unwrap(renew.new_addr) \notin DOMAIN Unwrap(observed)

\* The builder's data for the snapshot of the current state; the builder's
\* errors are checked under SpecService.
NoFunding == ~IsSome(spendable(configs, chain))
Unconfirmed ==
    /\ IsSome(spendable(configs, chain))
    /\ confirmations < actual_state(configs, chain).actual_configuration.utxo_confirmations
Due ==
    anchoring_due(last_anchoring_tx(chain),
                  latest_anchoring_height(actual_state(configs, chain).actual_configuration,
                                          height))

\* C16: no proposal spends an output with fewer than utxo_confirmations
\* confirmations: the builder fails with InsufficientConfirmations instead,
\* and with NoFundingTransaction while the chain is empty and no funding
\* transaction is configured; a failure creates no proposal and no signature
\* record and leaves the chain as it is.
C16_BuilderErrors ==
    /\ [](/\ \A r \in pool \cup signatures :
               Some(r.proposal.inputs[1]) = spendable(configs, chain) => ~Unconfirmed
          /\ \A x \in proposals :
               (x.at = height /\ Some(x.tx.inputs[1]) = spendable(configs, chain))
                   => ~Unconfirmed
          /\ (chain = <<>> /\ NoFunding) =>
               (proposals = {} /\ pool = {} /\ signatures = {}))
    /\ [][(/\ ret'.op = "actual_proposed_anchoring_transaction"
           /\ UNCHANGED <<height, configs, chain, pool, signatures, signed, rejected,
                          relayed, confirmations>>
           /\ Due) =>
              /\ NoFunding =>
                    (/\ ~Unwrap(ret'.val).ok
                     /\ Unwrap(ret'.val).val = "NoFundingTransaction")
              /\ Unconfirmed =>
                    (/\ ~Unwrap(ret'.val).ok
                     /\ Unwrap(ret'.val).val = "InsufficientConfirmations")]_vars
    /\ [][(Due /\ (NoFunding \/ Unconfirmed)) =>
              /\ chain' = chain
              /\ proposals' = proposals
              /\ pool' \subseteq pool
              /\ signatures' = signatures
              /\ signed' = signed]_vars

C16_Witness ==
    /\ ret.op = "actual_proposed_anchoring_transaction"
    /\ ~Unwrap(ret.val).ok
    /\ Unwrap(ret.val).val = "InsufficientConfirmations"
    /\ confirmations = DefaultUtxoConfirmations - 1
    /\ Unconfirmed
    /\ height = 1
    /\ proposals = {}
    /\ pool = {}

\* C18: the batch of create_signature_tx_for_validators(N) holds records of at
\* most N validators, none of them the test kit's own node, each for the
\* current proposal, with exactly one record per validator and input index
\* 0..k-1, and no record when no proposal is pending; every submitted set of
\* records of a validator covers each input of its proposal.
C18_SignatureSubmission ==
    /\ made.op = "create_signature_tx_for_validators" =>
          LET recs == made.records
              signers == {recs[j].validator : j \in DOMAIN recs}
          IN  /\ Us \notin signers
              /\ signers \subseteq Range(network_validators)
              /\ Cardinality(signers) <= made.validators_num
              /\ \A j \in DOMAIN recs :
                    /\ Some(recs[j].proposal) = made.proposal
                    /\ Some(recs[j].proposal) =
                          actual_proposed_anchoring_transaction(height, configs, chain)
              /\ \A v \in signers :
                    \A index \in 0..(Len(Unwrap(made.proposal).inputs) - 1) :
                       Cardinality({j \in DOMAIN recs :
                                       recs[j].validator = v /\ recs[j].input = index}) = 1
              /\ \A j \in DOMAIN recs :
                    recs[j].input \in 0..(Len(recs[j].proposal.inputs) - 1)
              /\ ~Due => recs = <<>>
    /\ \A r \in pool \cup signatures :
          \A index \in 0..(Len(r.proposal.inputs) - 1) :
             Cardinality({s \in pool \cup signatures :
                             /\ s.validator = r.validator
                             /\ s.proposal = r.proposal
                             /\ s.signature = r.signature
                             /\ s.input = index}) = 1

C18_Witness ==
    /\ made.result = "Ok"
    /\ made.validators_num = 2
    /\ Len(network_validators) = 4
    /\ Len(made.records) = 2

\* C20: renew_address changes neither key map when the state is not a
\* transition or the two addresses are equal; no step removes or changes a
\* binding that exists; and a second run in the same state leaves the maps
\* as the first left them.
C20_RotationFrame ==
    /\ [][(renew' # renew /\
            (\/ actual_state(configs, chain).kind # "Transition"
             \/ renew'.kind = "Actual"
             \/ renew'.old_addr = renew'.new_addr)) =>
              (local_private_keys' = local_private_keys /\ node_configs' = node_configs)]_vars
    /\ [][(renew' # renew /\ renew.pc = "read" /\ renew.old_addr = renew.new_addr) =>
              (/\ renew'.pc = "idle"
               /\ local_private_keys' = local_private_keys
               /\ node_configs' = node_configs)]_vars
    /\ [][/\ \A a \in DOMAIN local_private_keys :
                /\ a \in DOMAIN local_private_keys'
                /\ local_private_keys'[a] = local_private_keys[a]
          /\ DOMAIN node_configs' = DOMAIN node_configs
          /\ \A i \in DOMAIN node_configs : \A a \in DOMAIN node_configs[i] :
                /\ a \in DOMAIN node_configs'[i]
                /\ node_configs'[i][a] = node_configs[i][a]]_vars
    /\ [][(/\ renew' # renew
           /\ renew'.kind = "Transition"
           /\ Unwrap(renew'.new_addr) \in DOMAIN Unwrap(renew'.before)
           /\ \A i \in DOMAIN node_configs :
                 Unwrap(renew'.new_addr) \in DOMAIN node_configs[i]) =>
              (local_private_keys' = local_private_keys /\ node_configs' = node_configs)]_vars

C20_Witness ==
    /\ renew.kind = "Transition"
    /\ renew.pc = "idle"
    /\ renew.old_addr = renew.new_addr
    /\ local_private_keys = Unwrap(renew.before)
    /\ Cardinality(DOMAIN local_private_keys) >= 2
    /\ \A i \in DOMAIN node_configs :
          DOMAIN node_configs[i] = DOMAIN local_private_keys
-----------------------------------------------------------------------------
(* Properties of the relay, checked under SpecRelay. *)

\* C17: a finalized transaction stays in the chain at its place in every
\* later state, whether a broadcast fails or not, and, the relay accepting a
\* broadcast in the end, every finalized transaction is eventually relayed.
C17_RelayLiveness ==
    /\ [][\A i \in DOMAIN chain : i \in DOMAIN chain' /\ chain'[i] = chain[i]]_vars
    /\ [][relay_failures' # relay_failures =>
             (chain' = chain /\ signatures' = signatures /\ relayed' = relayed)]_vars
    /\ \A i \in 1..MaxBlocks :
          (Len(chain) >= i) ~> (Len(chain) >= i /\ chain[i] \in relayed)

C17_Witness ==
    /\ relay_failures = MaxRelayFailures
    /\ Len(chain) = 2
    /\ relayed = Range(chain)
====
